---- MODULE Spec2Model ----
(***************************************************************************)
(* Model of src/youtubedownload/frontend/app.js: the browser-side          *)
(* controller of the YouTube downloader.  The program state is the DOM     *)
(* fields the script writes, its three globals, the HTTP requests it has   *)
(* issued and not yet seen answered, the WebSocket instances it created    *)
(* and the reconnection timers it armed.                                   *)
(*                                                                         *)
(* The script runs on one event loop: every handler below runs to its next *)
(* await without interleaving, so each action is one such run.  In         *)
(* handleFetchInfo, handleDownload and loadHistory the two consecutive     *)
(* awaits (fetch, then response.json()) have no program step between them, *)
(* so the answer and its body arrive in one action.                        *)
(***************************************************************************)
EXTENDS Naturals, Integers, Sequences, FiniteSets, TLC

\* ------------------------------------------------------------------ bounds
MaxFetch == 2
MaxHist == 2
MaxSockets == 2
MaxTimers == 2

\* --------------------------------------------------------------- constants
BytesPerMB == 1048576
SecondsPerMinute == 60

\* the source texts are Japanese; each is named here by an ASCII rendering
ValidationMsg == "Please enter a URL"
FetchFallbackMsg == "Failed to fetch the video info"
DownloadFallbackMsg == "Failed to start the download"
FinishedFallbackMsg == "Processing the file..."
\* message of the SyntaxError response.json() rejects with
JsonSyntaxErrorMsg == "SyntaxError: Unexpected token"
\* message of the TypeError fetch() rejects with on a network fault
NetworkFaultMsg == "TypeError: Failed to fetch"

Sections == {"preview", "progress", "complete", "error"}
Buttons == {"fetchInfoBtn", "downloadBtn"}
Endpoints == {"videoInfo", "download", "history"}

VARIABLES st, sock, websocket, timers

vars == <<st, sock, websocket, timers>>

\* ------------------------------------------------------------------ inputs
\* what the user may leave in the URL field, as a sequence of characters: the
\* empty string, whitespace only, and a URL typed with a leading blank
Urls == {<<>>, <<" ">>, <<" ", "a">>}

VideoInfos == {"v1"}

\* An HTTP answer: the fetch rejected (network fault), or a response with its
\* ok flag and a body that parses as JSON or not; detail "" is an absent detail.
HttpAnswers ==
    {[fault |-> TRUE, ok |-> FALSE, parseable |-> FALSE, detail |-> "", data |-> "null"]}
    \cup {[fault |-> FALSE, ok |-> TRUE, parseable |-> FALSE, detail |-> "", data |-> "null"]}
    \cup {[fault |-> FALSE, ok |-> TRUE, parseable |-> TRUE, detail |-> "", data |-> v] :
            v \in VideoInfos}
    \cup {[fault |-> FALSE, ok |-> FALSE, parseable |-> TRUE, detail |-> d, data |-> "null"] :
            d \in {"", "d1"}}
    \cup {[fault |-> FALSE, ok |-> FALSE, parseable |-> FALSE, detail |-> "", data |-> "null"]}

HistoryLists == {<<>>, <<"h1", "h2">>}
HistoryAnswers ==
    {[fault |-> f, parseable |-> p, success |-> s, data |-> d] :
        f \in BOOLEAN, p \in BOOLEAN, s \in BOOLEAN, d \in HistoryLists}

CanonHistoryAnswers ==
    {a \in HistoryAnswers :
        /\ a.fault => (~a.parseable /\ ~a.success /\ a.data = <<>>)
        /\ ~a.parseable => (~a.success /\ a.data = <<>>)}

\* the result descriptor of a completed event
Results == {[id |-> "abc", filename |-> "video.mp4"]}
NoResult == [id |-> "", filename |-> ""]

\* A channel payload.  progress is in tenths of a percent (427 is 42.7), speed
\* in bytes per second, eta in seconds; 0 and "" also stand for an absent field.
Ev(wf, status, progress, speed, eta, message, result, error) ==
    [wellFormed |-> wf, status |-> status, progress |-> progress, speed |-> speed,
     eta |-> eta, message |-> message, result |-> result, error |-> error]

DownloadingEvents ==
    {Ev(TRUE, "downloading", 427, 2097152, 75, "", NoResult, ""),
     Ev(TRUE, "downloading", 0, 0, 0, "", NoResult, "")}
FinishedEvents == {Ev(TRUE, "finished", 0, 0, 0, "", NoResult, "")}
CompletedEvents ==
    {Ev(TRUE, "completed", 0, 0, 0, "", r, "") : r \in Results}
ErrorEvents == {Ev(TRUE, "error", 0, 0, 0, "", NoResult, "e1")}
OtherEvents ==
    {Ev(TRUE, "queued", 0, 0, 0, "", NoResult, ""),
     Ev(FALSE, "", 0, 0, 0, "", NoResult, "")}
Events == DownloadingEvents \cup FinishedEvents \cup CompletedEvents
            \cup ErrorEvents \cup OtherEvents

\* ----------------------------------------------------------- pure helpers
RECURSIVE TrimLeft(_)
TrimLeft(s) == IF s # <<>> /\ Head(s) = " " THEN TrimLeft(Tail(s)) ELSE s

RECURSIVE TrimRight(_)
TrimRight(s) ==
    IF s # <<>> /\ s[Len(s)] = " " THEN TrimRight(SubSeq(s, 1, Len(s) - 1)) ELSE s

NoTrim(s) == s

\* String.prototype.trim
Trim(s) == TrimRight(TrimLeft(s))

\* Math.round of a value given in tenths
MathRound(tenths) == (tenths + 5) \div 10

\* formatSpeed: "0 MB/s" for a falsy speed, else MB/s with two decimals
\* (hundredths of a MB/s, rounded as toFixed(2) rounds)
formatSpeed(bytesPerSecond) ==
    IF bytesPerSecond = 0
    THEN [text |-> "0 MB/s", hundredths |-> 0]
    ELSE [text |-> "x.xx MB/s",
          hundredths |-> (bytesPerSecond * 100 + BytesPerMB \div 2) \div BytesPerMB]

\* formatEta: "-- left" for a falsy eta, else minutes and seconds, or seconds alone
formatEta(seconds) ==
    IF seconds = 0
    THEN [text |-> "-- left", mins |-> 0, secs |-> 0]
    ELSE LET mins == seconds \div SecondsPerMinute
             secs == seconds % SecondsPerMinute
         IN IF mins > 0
            THEN [text |-> "m min s sec left", mins |-> mins, secs |-> secs]
            ELSE [text |-> "s sec left", mins |-> 0, secs |-> secs]

\* the link of a completed download
FileHref(id) == <<"/api/downloads/", id, "/file">>

\* ------------------------------------------------- handlers on the UI state
hideAllSectionsKeepError(s) ==
    [s EXCEPT !.hidden = [x \in Sections |-> IF x = "error" THEN @[x] ELSE TRUE]]

hideAllSections(s) == [s EXCEPT !.hidden = [x \in Sections |-> TRUE]]

showErrorClearsId(s, message) ==
    [hideAllSections(s) EXCEPT !.hidden["error"] = FALSE, !.errorMessage = message,
                               !.currentDownloadId = "null"]

showError(s, message) ==
    [hideAllSections(s) EXCEPT !.hidden["error"] = FALSE, !.errorMessage = message]

setButtonLoading(s, button, isLoading) == [s EXCEPT !.disabled[button] = isLoading]

updateProgressAccumulates(s, data) ==
    LET progress == MathRound(data.progress)
    IN [s EXCEPT !.progress = [width |-> @.width + progress, percent |-> progress,
                               speed |-> formatSpeed(data.speed),
                               eta |-> formatEta(data.eta)]]

updateProgressShowsSection(s, data) ==
    LET progress == MathRound(data.progress)
    IN [s EXCEPT !.hidden["progress"] = FALSE,
                 !.progress = [width |-> progress, percent |-> progress,
                               speed |-> formatSpeed(data.speed),
                               eta |-> formatEta(data.eta)]]

updateProgress(s, data) ==
    LET progress == MathRound(data.progress)
    IN [s EXCEPT !.progress = [width |-> progress, percent |-> progress,
                               speed |-> formatSpeed(data.speed),
                               eta |-> formatEta(data.eta)]]

\* the preview's text fields (title, duration, ...) are written from info and
\* read by nothing; only the section switch is kept
showVideoPreviewStaysHidden(s, info) == hideAllSections(s)

showVideoPreview(s, info) == [hideAllSections(s) EXCEPT !.hidden["preview"] = FALSE]

\* loadHistory up to its first await: the GET /api/history is issued
loadHistory(s) == [s EXCEPT !.inflight["history"] = @ + 1]

handleDownloadCompleteNoReload(s, result) ==
    [hideAllSections(s) EXCEPT
        !.hidden["complete"] = FALSE,
        !.complete = [filename |-> result.filename, href |-> FileHref(result.id),
                      download |-> result.filename],
        !.currentDownloadId = result.id]

handleDownloadComplete(s, result) ==
    loadHistory([hideAllSections(s) EXCEPT
        !.hidden["complete"] = FALSE,
        !.complete = [filename |-> result.filename, href |-> FileHref(result.id),
                      download |-> result.filename],
        !.currentDownloadId = result.id])

handleWebSocketMessageFinishedFillsBar(s, data) ==
    IF data.status = "downloading" THEN updateProgress(s, data)
    ELSE IF data.status = "finished"
    THEN [updateProgress(s, [progress |-> 1000, speed |-> 0, eta |-> 0])
            EXCEPT !.progressMessage =
                IF data.message # "" THEN data.message ELSE FinishedFallbackMsg]
    ELSE IF data.status = "completed" THEN handleDownloadComplete(s, data.result)
    ELSE IF data.status = "error" THEN showError(s, data.error)
    ELSE s

handleWebSocketMessage(s, data) ==
    IF data.status = "downloading" THEN updateProgress(s, data)
    ELSE IF data.status = "finished"
    THEN [s EXCEPT !.progressMessage =
            IF data.message # "" THEN data.message ELSE FinishedFallbackMsg]
    ELSE IF data.status = "completed" THEN handleDownloadComplete(s, data.result)
    ELSE IF data.status = "error" THEN showError(s, data.error)
    ELSE s

onmessageShowsParseError(s, ev) ==
    IF ev.wellFormed THEN handleWebSocketMessage(s, ev) ELSE showError(s, JsonSyntaxErrorMsg)

\* websocket.onmessage: JSON.parse throws on a malformed payload, before the dispatch
onmessage(s, ev) == IF ev.wellFormed THEN handleWebSocketMessage(s, ev) ELSE s

\* the try block throws: fetch rejects, response.json() rejects, or the status
\* is not ok
Throws(a) == a.fault \/ ~a.parseable \/ ~a.ok

\* the message an answer's catch block shows: the thrown error's message
ThrownMessage(a, fallback) ==
    IF a.fault THEN NetworkFaultMsg
    ELSE IF ~a.parseable THEN JsonSyntaxErrorMsg
    ELSE IF a.detail # "" THEN a.detail ELSE fallback

\* handleFetchInfo from its first await on: try, catch, finally
fetchInfoResumeNoFinally(s, a) ==
    IF ~Throws(a)
    THEN setButtonLoading(
            showVideoPreview([s EXCEPT !.currentVideoInfo = a.data], a.data),
            "fetchInfoBtn", FALSE)
    ELSE showError(s, ThrownMessage(a, FetchFallbackMsg))

fetchInfoResume(s, a) ==
    setButtonLoading(
        IF ~Throws(a)
        THEN showVideoPreview([s EXCEPT !.currentVideoInfo = a.data], a.data)
        ELSE showError(s, ThrownMessage(a, FetchFallbackMsg)),
        "fetchInfoBtn", FALSE)

\* handleDownload from its first await on
downloadResume(s, a) ==
    setButtonLoading(
        IF ~Throws(a) THEN s ELSE showError(s, ThrownMessage(a, DownloadFallbackMsg)),
        "downloadBtn", FALSE)

displayEmptyHistory(s) == [s EXCEPT !.historyList = [placeholder |-> TRUE, items |-> <<>>]]

RECURSIVE appendAll(_, _)
appendAll(list, history) ==
    IF history = <<>> THEN list
    ELSE appendAll(Append(list, Head(history)), Tail(history))

displayHistoryNoClear(s, history) ==
    [s EXCEPT !.historyList = [placeholder |-> FALSE,
                               items |-> appendAll(s.historyList.items, history)]]

displayHistory(s, history) ==
    [s EXCEPT !.historyList = [placeholder |-> FALSE, items |-> appendAll(<<>>, history)]]

\* loadHistory from its first await on
loadHistoryResume(s, a) ==
    IF a.fault \/ ~a.parseable THEN displayEmptyHistory(s)
    ELSE IF a.success /\ Len(a.data) > 0 THEN displayHistory(s, a.data)
    ELSE displayEmptyHistory(s)

\* websocket.onclose arms one timer for initWebSocket
oncloseTwoTimers(t) == t + 2

oncloseNoTimer(t) == t

onclose(t) == t + 1

\* websocket.onerror only logs
onerrorReconnects(t) == t + 1

onerror(t) == t

\* what onerror and onclose do to the page: nothing, they write to the console
oncloseDomShowsError(s) == showError(s, NetworkFaultMsg)

oncloseDom(s) == s

onerrorDom(s) == s

\* ------------------------------------------------------------------- state
Visible == {x \in Sections : ~st.hidden[x]}
Live == {i \in 1..MaxSockets : sock[i] \in {"CONNECTING", "OPEN"}}
Open == {i \in 1..MaxSockets : sock[i] = "OPEN"}
FreeSlots == {i \in 1..MaxSockets : sock[i] \in {"NONE", "CLOSED"}}

InitState ==
    [urlValue |-> <<>>,
     hidden |-> [x \in Sections |-> TRUE],
     errorMessage |-> "",
     progress |-> [width |-> 0, percent |-> 0, speed |-> formatSpeed(0), eta |-> formatEta(0)],
     progressMessage |-> "",
     complete |-> [filename |-> "", href |-> FileHref(""), download |-> ""],
     currentVideoInfo |-> "null",
     currentDownloadId |-> "null",
     disabled |-> [b \in Buttons |-> FALSE],
     historyList |-> [placeholder |-> FALSE, items |-> <<>>],
     inflight |-> [e \in Endpoints |-> 0],
     downloadsStarted |-> "none"]

\* DOMContentLoaded has run: initEventListeners, initWebSocket, loadHistory
Init ==
    /\ st = loadHistory(InitState)
    /\ sock = [i \in 1..MaxSockets |-> IF i = 1 THEN "CONNECTING" ELSE "NONE"]
    /\ websocket = 1
    /\ timers = 0

Channel == <<sock, websocket, timers>>

\* ----------------------------------------------------------------- actions
\* the user edits the URL field
TypeUrl(u) ==
    /\ u # st.urlValue
    /\ st' = [st EXCEPT !.urlValue = u]
    /\ UNCHANGED Channel

\* handleFetchInfo up to its first await
handleFetchInfoStart(s) ==
    IF Trim(s.urlValue) = <<>>
    THEN showError(s, ValidationMsg)
    ELSE [hideAllSections(setButtonLoading(s, "fetchInfoBtn", TRUE))
            EXCEPT !.inflight["videoInfo"] = @ + 1]

HandleFetchInfo ==
    /\ Trim(st.urlValue) # <<>> => st.inflight["videoInfo"] < MaxFetch
    /\ st' = handleFetchInfoStart(st)
    /\ UNCHANGED Channel

\* a click on fetchInfoBtn; a disabled button dispatches no click
ClickFetchInfo == ~st.disabled["fetchInfoBtn"] /\ HandleFetchInfo

\* Enter in the URL field
EnterKey == HandleFetchInfo

VideoInfoAnswer(a) ==
    /\ st.inflight["videoInfo"] > 0
    /\ st' = fetchInfoResume([st EXCEPT !.inflight["videoInfo"] = @ - 1], a)
    /\ UNCHANGED Channel

handleDownloadStartNoProgressReset(s) ==
    IF Trim(s.urlValue) = <<>>
    THEN showError(s, ValidationMsg)
    ELSE [hideAllSections(setButtonLoading(s, "downloadBtn", TRUE))
          EXCEPT !.hidden["progress"] = FALSE,
                 !.inflight["download"] = @ + 1]

\* handleDownload up to its first await
handleDownloadStart(s) ==
    IF Trim(s.urlValue) = <<>>
    THEN showError(s, ValidationMsg)
    ELSE [updateProgress(
            [hideAllSections(setButtonLoading(s, "downloadBtn", TRUE))
                EXCEPT !.hidden["progress"] = FALSE],
            [progress |-> 0, speed |-> 0, eta |-> 0])
          EXCEPT !.inflight["download"] = @ + 1]

HandleDownload ==
    /\ ~st.disabled["downloadBtn"]
    /\ st' = handleDownloadStart(st)
    /\ UNCHANGED Channel

\* The backend runs every download it was asked to start to its end, and its
\* events name no download.  downloadsStarted is a history variable, counted
\* only under DownloadSpec: whether no, one or several POST /api/download were
\* issued, so that an event of an earlier download can be told from one of the
\* latest.
StartedOneMore(n) == IF n = "none" THEN "one" ELSE "several"

HandleDownloadCounted ==
    /\ ~st.disabled["downloadBtn"]
    /\ st' = [handleDownloadStart(st) EXCEPT !.downloadsStarted =
                IF Trim(st.urlValue) = <<>> THEN @ ELSE StartedOneMore(@)]
    /\ UNCHANGED Channel

DownloadAnswer(a) ==
    /\ st.inflight["download"] > 0
    /\ st' = downloadResume([st EXCEPT !.inflight["download"] = @ - 1], a)
    /\ UNCHANGED Channel

HistoryAnswer(a) ==
    /\ st.inflight["history"] > 0
    /\ st' = loadHistoryResume([st EXCEPT !.inflight["history"] = @ - 1], a)
    /\ UNCHANGED Channel

resetFormKeepsSections(s) ==
    [s EXCEPT !.urlValue = <<>>, !.currentVideoInfo = "null", !.currentDownloadId = "null"]

\* resetForm, bound to newDownloadBtn and retryBtn.  Where the page puts its
\* buttons is not in the script, so a button is taken to be clickable whenever
\* it is not disabled.
resetForm(s) ==
    hideAllSections([s EXCEPT !.urlValue = <<>>, !.currentVideoInfo = "null",
                              !.currentDownloadId = "null"])

ResetForm ==
    /\ st' = resetForm(st)
    /\ UNCHANGED Channel

\* the connection of instance i is established: onopen only logs
SocketOpen(i) ==
    /\ sock[i] = "CONNECTING"
    /\ sock' = [sock EXCEPT ![i] = "OPEN"]
    /\ UNCHANGED <<st, websocket, timers>>

\* instance i fails: the browser fires error (and will fire close)
SocketError(i) ==
    /\ sock[i] \in {"CONNECTING", "OPEN"}
    /\ onerror(timers) <= MaxTimers
    /\ timers' = onerror(timers)
    /\ st' = onerrorDom(st)
    /\ UNCHANGED <<sock, websocket>>

\* instance i closes: the browser fires close once per instance
SocketClose(i) ==
    /\ sock[i] \in {"CONNECTING", "OPEN"}
    /\ onclose(timers) <= MaxTimers
    /\ sock' = [sock EXCEPT ![i] = "CLOSED"]
    /\ timers' = onclose(timers)
    /\ st' = oncloseDom(st)
    /\ UNCHANGED websocket

\* a reconnection timer fires: initWebSocket makes a fresh instance and binds
\* its four handlers
TimerFire ==
    /\ timers > 0
    /\ FreeSlots # {}
    /\ LET i == CHOOSE k \in FreeSlots : \A j \in FreeSlots : k <= j
       IN /\ sock' = [sock EXCEPT ![i] = "CONNECTING"]
          /\ websocket' = i
    /\ timers' = timers - 1
    /\ UNCHANGED st

RECURSIVE Deliver(_, _, _)
Deliver(s, ev, n) == IF n = 0 THEN s ELSE Deliver(onmessage(s, ev), ev, n - 1)

\* the backend sends one StatusEvent: every open instance runs its onmessage
ChannelMessage(ev) ==
    /\ Open # {}
    /\ LET n == Cardinality(Open)
       IN /\ (ev.status = "completed" => st.inflight["history"] + n <= MaxHist)
          /\ st' = Deliver(st, ev, n)
    /\ UNCHANGED <<sock, websocket, timers>>

\* the backend sends a StatusEvent of a download that a later handleDownload
\* call has superseded; the client receives it as any other
SupersededMessage(ev) ==
    /\ st.downloadsStarted = "several"
    /\ ChannelMessage(ev)

OtherThanDownload ==
    \/ \E u \in Urls : TypeUrl(u)
    \/ ClickFetchInfo
    \/ EnterKey
    \/ \E a \in HttpAnswers : VideoInfoAnswer(a)
    \/ \E a \in HttpAnswers : DownloadAnswer(a)
    \/ \E a \in CanonHistoryAnswers : HistoryAnswer(a)
    \/ ResetForm
    \/ \E i \in 1..MaxSockets : SocketOpen(i)
    \/ \E i \in 1..MaxSockets : SocketError(i)
    \/ \E i \in 1..MaxSockets : SocketClose(i)
    \/ TimerFire
    \/ \E ev \in Events : ChannelMessage(ev)

Next == OtherThanDownload \/ HandleDownload

Spec == Init /\ [][Next]_vars

\* the same program with the downloads counted and the events of superseded
\* downloads told apart
DownloadNext ==
    \/ OtherThanDownload
    \/ HandleDownloadCounted
    \/ \E ev \in Events : SupersededMessage(ev)

DownloadSpec == Init /\ [][DownloadNext]_vars

\* setTimeout fires its callback: the timer is the one step the browser owes
LiveSpec == Spec /\ WF_vars(TimerFire)

\* ------------------------------------------------------------------ claims
\* C1: every close of a channel instance arms exactly one reconnection timer,
\* and in every reachable state at most one reconnection timer is pending.
C1_OneTimerPerClose ==
    /\ [](timers <= 1)
    /\ [][\A i \in 1..MaxSockets :
            (sock[i] # "CLOSED" /\ sock'[i] = "CLOSED") => timers' = timers + 1]_vars

\* a channel that was open and has dispatched an event has closed, and its
\* one timer is pending
C1_Witness ==
    /\ timers = 1
    /\ sock[websocket] = "CLOSED"
    /\ st.progress.percent = 43

\* C2: whenever no channel instance is live (the last one closed), a new
\* connection attempt is eventually made, given that the armed timer fires.
C2_ReconnectsForever == (Live = {}) ~> (\E i \in 1..MaxSockets : sock[i] = "CONNECTING")

\* a channel that had delivered a completed event has closed: no instance is
\* live and the timer of the reconnection is pending
C2_Witness ==
    /\ Live = {}
    /\ timers = 1
    /\ ~st.hidden["complete"]

\* C3: at most one channel instance with bound handlers is live, so no
\* StatusEvent is dispatched twice: the one handler that is not idempotent,
\* the history reload of a completed event, runs at most once per step.
C3_SingleDispatch ==
    /\ [](Cardinality(Live) <= 1)
    /\ [][st'.inflight["history"] <= st.inflight["history"] + 1]_vars

\* an open instance has dispatched a completed event: one history reload
C3_Witness ==
    /\ Cardinality(Open) = 1
    /\ ~st.hidden["complete"]
    /\ st.currentDownloadId = "abc"
    /\ st.inflight["history"] = 1

\* a URL that is empty or whitespace only
IsBlank(u) == \A k \in 1..Len(u) : u[k] = " "

\* C4: a handleFetchInfo call on a URL that is not blank issues exactly one
\* POST /api/video-info (and no other request), and the step that ends the call
\* issues none and leaves exactly the preview or the error section visible.
C4_FetchOnePostThenPreviewOrError ==
    [][/\ (~IsBlank(st.urlValue) /\ HandleFetchInfo) =>
            st'.inflight = [st.inflight EXCEPT !["videoInfo"] = @ + 1]
       /\ st'.inflight["videoInfo"] < st.inflight["videoInfo"] =>
            /\ Visible' \in {{"preview"}, {"error"}}
            /\ st'.inflight = [st.inflight EXCEPT !["videoInfo"] = @ - 1]]_vars

\* every fetch call has ended, the last with success: the preview is shown
C4_Witness ==
    /\ st.inflight["videoInfo"] = 0
    /\ st.currentVideoInfo = "v1"
    /\ Visible = {"preview"}
    /\ ~st.disabled["fetchInfoBtn"]

\* C5: on a blank URL handleFetchInfo and handleDownload issue no request, show
\* the validation message in the error section and leave both buttons' loading
\* state and the progress display as they were.
C5_BlankUrlOnlyShowsValidation ==
    [][(IsBlank(st.urlValue) /\ (HandleFetchInfo \/ HandleDownload)) =>
            /\ st'.inflight = st.inflight
            /\ Visible' = {"error"}
            /\ st'.errorMessage = ValidationMsg
            /\ st'.disabled = st.disabled
            /\ st'.progress = st.progress]_vars

\* a whitespace-only URL was refused while an earlier fetch is still
\* outstanding: the button's loading state stayed on
C5_Witness ==
    /\ st.urlValue = <<" ">>
    /\ st.errorMessage = ValidationMsg
    /\ Visible = {"error"}
    /\ st.disabled["fetchInfoBtn"]
    /\ st.inflight["videoInfo"] = 1

\* C6: at most one of the four sections is visible.
C6_AtMostOneSectionVisible == Cardinality(Visible) <= 1

\* the complete section replaced an error section shown earlier
C6_Witness ==
    /\ Visible = {"complete"}
    /\ st.errorMessage = "e1"

\* C7: a completed StatusEvent makes the complete section the only visible
\* one, sets filename, link and currentDownloadId from its result and issues
\* exactly one GET /api/history, whatever the state it arrives in.
C7_CompletedShowsResultAndReloadsOnce ==
    [][\A ev \in CompletedEvents : ChannelMessage(ev) =>
            /\ Visible' = {"complete"}
            /\ st'.complete = [filename |-> ev.result.filename,
                               href |-> <<"/api/downloads/", ev.result.id, "/file">>,
                               download |-> ev.result.filename]
            /\ st'.currentDownloadId = ev.result.id
            /\ st'.inflight = [st.inflight EXCEPT !["history"] = @ + 1]]_vars

\* a completed event arrived while the first loadHistory was still outstanding
C7_Witness ==
    /\ Visible = {"complete"}
    /\ st.currentDownloadId = "abc"
    /\ st.complete.filename = "video.mp4"
    /\ st.inflight["history"] = 2

\* C8: whenever the rendered history changes, it becomes the empty-state
\* placeholder or exactly the entries of one backend response.
C8_HistoryIsOneResponse ==
    [][st'.historyList # st.historyList =>
            \/ st'.historyList = [placeholder |-> TRUE, items |-> <<>>]
            \/ /\ ~st'.historyList.placeholder
               /\ st'.historyList.items \in HistoryLists \ {<<>>}]_vars

\* the startup load and the reload of a completed download were both answered
\* and the list shows one response
C8_Witness ==
    /\ st.historyList = [placeholder |-> FALSE, items |-> <<"h1", "h2">>]
    /\ st.inflight["history"] = 0
    /\ Visible = {"complete"}

\* C9: the step that ends a handleFetchInfo call turns the fetch button's
\* loading state off, and the button is never disabled with no call outstanding.
C9_FetchButtonRestored ==
    /\ [](st.inflight["videoInfo"] = 0 => ~st.disabled["fetchInfoBtn"])
    /\ [][st'.inflight["videoInfo"] < st.inflight["videoInfo"] =>
            ~st'.disabled["fetchInfoBtn"]]_vars

\* the call ended on a non-success answer with an unparseable body
C9_Witness ==
    /\ st.inflight["videoInfo"] = 0
    /\ ~st.disabled["fetchInfoBtn"]
    /\ Visible = {"error"}
    /\ st.errorMessage = JsonSyntaxErrorMsg

\* C10: a non-success answer to POST /api/video-info or POST /api/download
\* ends in the error section with the body's detail when it carries one, and
\* with the generic fallback message otherwise.
C10_DetailOrFallback ==
    [][\A a \in {x \in HttpAnswers : ~x.fault /\ ~x.ok} :
            /\ VideoInfoAnswer(a) =>
                /\ Visible' = {"error"}
                /\ st'.errorMessage = IF a.detail # "" THEN a.detail ELSE FetchFallbackMsg
            /\ DownloadAnswer(a) =>
                /\ Visible' = {"error"}
                /\ st'.errorMessage =
                        IF a.detail # "" THEN a.detail ELSE DownloadFallbackMsg]_vars

\* C11: a channel fault (error or close of an instance) changes nothing of the
\* page: section, messages, progress display and history stay as they are;
\* a network fault of POST /api/video-info or POST /api/download shows the
\* error section.
C11_ChannelFaultSilentHttpFaultShown ==
    [][/\ \A i \in 1..MaxSockets :
            (sock[i] \in {"CONNECTING", "OPEN"} /\ (SocketError(i) \/ SocketClose(i)))
                => st' = st
       /\ \A a \in {x \in HttpAnswers : x.fault} :
            (VideoInfoAnswer(a) \/ DownloadAnswer(a))
                => (Visible' = {"error"} /\ st'.errorMessage = NetworkFaultMsg)]_vars

\* the channel closed while a download was shown in progress, and the page
\* still shows it
C11_Witness ==
    /\ Live = {}
    /\ timers = 1
    /\ Visible = {"progress"}
    /\ st.progress.percent = 43

\* C12 as claimed: once a later handleDownload call has passed validation, a
\* StatusEvent of a superseded download changes neither the visible section
\* nor the progress display.
C12_SupersededEventsIgnored ==
    [][\A ev \in Events : SupersededMessage(ev) =>
            (st'.hidden = st.hidden /\ st'.progress = st.progress)]_vars

\* C12 as amended: at most one handleDownload call is outstanding; a call on a
\* URL that is not blank shows the progress section alone with the progress
\* display at zero; a downloading or completed event of a superseded download
\* is rendered as any other event is.
C12_NewDownloadResetsProgress ==
    /\ [](st.inflight["download"] <= 1)
    /\ [][/\ (~IsBlank(st.urlValue) /\ HandleDownloadCounted) =>
                /\ Visible' = {"progress"}
                /\ st'.progress = [width |-> 0, percent |-> 0,
                                   speed |-> [text |-> "0 MB/s", hundredths |-> 0],
                                   eta |-> [text |-> "-- left", mins |-> 0, secs |-> 0]]
                /\ st'.inflight = [st.inflight EXCEPT !["download"] = @ + 1]
          /\ SupersededMessage(Ev(TRUE, "downloading", 427, 2097152, 75, "", NoResult, ""))
                => st'.progress.percent = 43
          /\ \A ev \in CompletedEvents :
                SupersededMessage(ev) => Visible' = {"complete"}]_vars

\* a second download was started after progress of the first was shown: the
\* display is back at zero
C12_Witness ==
    /\ st.downloadsStarted = "several"
    /\ st.inflight["download"] = 1
    /\ Visible = {"progress"}
    /\ st.progress.percent = 0

\* C13: progress rendering is idempotent: from any state, once a downloading
\* event has been handled, handling the same event again leaves the displayed
\* percent, bar width, speed and eta (and all the rest of the page) as they are.
C13_ProgressIdempotent ==
    [][\A ev \in DownloadingEvents :
            ChannelMessage(ev) =>
                /\ handleWebSocketMessage(st', ev).progress = st'.progress
                /\ handleWebSocketMessage(st', ev) = st']_vars

\* a downloading event (42.7 %, 2 MiB/s, 75 s) has been rendered over a page
\* that shows the completed section of an earlier download
C13_Witness ==
    /\ st.progress.width = 43
    /\ st.progress.speed.hundredths = 200
    /\ st.progress.eta.mins = 1 /\ st.progress.eta.secs = 15
    /\ Visible = {"complete"}

\* C14 as claimed: the visible section changes only from idle to preview, from
\* preview to progress, from progress to completed or error, and from
\* completed or error to idle by resetForm.
C14_OnlyListedTransitions ==
    [][Visible' # Visible =>
        \/ Visible = {} /\ Visible' = {"preview"}
        \/ Visible = {"preview"} /\ Visible' = {"progress"}
        \/ Visible = {"progress"} /\ Visible' \in {{"complete"}, {"error"}}
        \/ Visible \in {{"complete"}, {"error"}} /\ Visible' = {} /\ ResetForm]_vars

\* C14 as amended: the visible section changes only by these operations, from
\* whatever section is shown: to idle by resetForm or by a handleFetchInfo call
\* on a URL that is not blank; to preview by a successful video-info answer; to
\* progress by a handleDownload call on a URL that is not blank; to completed
\* by a completed event; to error by a call on a blank URL, a failed video-info
\* or download answer, or an error event.
C14_SectionChangesByOperation ==
    [][Visible' # Visible =>
        /\ Visible' = {} => (ResetForm \/ (~IsBlank(st.urlValue) /\ HandleFetchInfo))
        /\ Visible' = {"preview"} =>
                \E a \in HttpAnswers : a.ok /\ ~a.fault /\ a.parseable /\ VideoInfoAnswer(a)
        /\ Visible' = {"progress"} => (~IsBlank(st.urlValue) /\ HandleDownload)
        /\ Visible' = {"complete"} => \E ev \in CompletedEvents : ChannelMessage(ev)
        /\ Visible' = {"error"} =>
                \/ IsBlank(st.urlValue) /\ (HandleFetchInfo \/ HandleDownload)
                \/ \E a \in HttpAnswers :
                        (a.fault \/ ~a.ok \/ ~a.parseable)
                            /\ (VideoInfoAnswer(a) \/ DownloadAnswer(a))
                \/ \E ev \in ErrorEvents : ChannelMessage(ev)]_vars

\* the preview of a fetched video was replaced by the validation error of a
\* call on a blank URL
C14_Witness ==
    /\ Visible = {"error"}
    /\ st.errorMessage = ValidationMsg
    /\ st.currentVideoInfo = "v1"

\* C15: a success response to POST /api/download leaves the visible section,
\* the progress display, currentDownloadId and the history list unchanged and
\* only turns the download button's loading indicator off.
C15_SuccessOnlyEndsLoading ==
    [][\A a \in {x \in HttpAnswers : x.ok /\ ~x.fault} :
            DownloadAnswer(a) =>
                /\ st'.hidden = st.hidden
                /\ st'.errorMessage = st.errorMessage
                /\ st'.progress = st.progress
                /\ st'.currentDownloadId = st.currentDownloadId
                /\ st'.historyList = st.historyList
                /\ ~st'.disabled["downloadBtn"]]_vars

\* C16: while a handleFetchInfo call is outstanding, the fetch button's
\* loading indicator is on.
C16_LoadingWhileOutstanding ==
    st.inflight["videoInfo"] > 0 => st.disabled["fetchInfoBtn"]

\* C17: a finished event changes the processing message and nothing else: the
\* progress display, the sections, currentDownloadId, the history list and
\* the requests in flight stay as they are.
C17_FinishedOnlySetsMessage ==
    [][\A ev \in FinishedEvents :
            ChannelMessage(ev) =>
                /\ st'.progressMessage =
                        (IF ev.message # "" THEN ev.message ELSE FinishedFallbackMsg)
                /\ [st' EXCEPT !.progressMessage = st.progressMessage] = st]_vars

\* a finished event was handled while the bar stood at 43 %, and a later
\* handleDownload call is outstanding
C17_Witness ==
    /\ st.progressMessage = FinishedFallbackMsg
    /\ st.progress.percent = 43
    /\ st.inflight["download"] = 1

\* C18: whenever the preview section is visible, currentVideoInfo is not null.
C18_PreviewHasVideoInfo == ~st.hidden["preview"] => st.currentVideoInfo # "null"

\* the preview of the second of two overlapping fetches is shown after a reset
\* emptied the URL field, while the first is still outstanding
C18_Witness ==
    /\ Visible = {"preview"}
    /\ st.currentVideoInfo = "v1"
    /\ st.urlValue = <<>>
    /\ st.inflight["videoInfo"] = 1

\* C19: currentDownloadId starts null; only a completed event changes it, to
\* that event's result id, and only resetForm sets it back to null; while it is
\* not null it is the id the completed section links to.
C19_DownloadIdOnlyFromCompleted ==
    /\ [](st.currentDownloadId # "null" => st.complete.href = FileHref(st.currentDownloadId))
    /\ [][/\ \A ev \in CompletedEvents :
                ChannelMessage(ev) => st'.currentDownloadId = ev.result.id
          /\ st'.currentDownloadId # st.currentDownloadId =>
                \/ \E ev \in CompletedEvents :
                        ChannelMessage(ev) /\ st'.currentDownloadId = ev.result.id
                \/ ResetForm /\ st'.currentDownloadId = "null"]_vars

\* a download completed and an error event was shown afterwards: the id stays
C19_Witness ==
    /\ st.currentDownloadId = "abc"
    /\ Visible = {"error"}
    /\ st.errorMessage = "e1"

\* C20: a channel message that does not parse changes nothing on the page,
\* closes no channel and arms no timer, and the channel stays open for the
\* events that follow.
C20_MalformedPayloadIgnored ==
    [][\A ev \in {e \in Events : ~e.wellFormed} :
            ChannelMessage(ev) =>
                (st' = st /\ sock' = sock /\ timers' = timers /\ websocket' = websocket
                    /\ Open' # {})]_vars

\* an open channel over a page in mid-download, where such a message arrives
C20_Witness ==
    /\ Open # {}
    /\ Visible = {"progress"}
    /\ st.progress.percent = 43
    /\ st.progressMessage = FinishedFallbackMsg
    /\ st.disabled["downloadBtn"]

====
